---- MODULE Spec2Model ----
(***************************************************************************)
(* The reorder-strategy engine of spotifyops/logic/intelligent_reorder.py: *)
(* the move simulator (_apply_move_to_list), the greedy planner            *)
(* (_calculate_minimal_moves), the similarity scorer, the optimizer        *)
(* (optimize_moves) and the strategy selector                             *)
(* (calculate_reorder_strategy); and its callers: the executor methods of  *)
(* spotifyops/tools/spotify.py (apply_intelligent_reorder,                 *)
(* update_playlist_track_order) and the dispatch of                        *)
(* spotifyops/background/job_processor.py.                                 *)
(*                                                                         *)
(* Python lists are sequences; every position held in a variable or in a   *)
(* move is the 0-based Python index, converted on access.  Floats are      *)
(* modelled as exact rationals [num, den]: within the bounds below no      *)
(* comparison of the code (> 0.7, < 0.4, < N * 0.5) falls on a value where *)
(* IEEE rounding could change its outcome unless the rational is exactly   *)
(* the literal, and there the correctly rounded quotient equals it.        *)
(***************************************************************************)
EXTENDS Integers, Sequences, FiniteSets, TLC

\* ------------------------------------------------------------------ bounds
MaxLen == 4        \* longest ordering handed to the engine
MaxMoves == 3      \* longest move list handed to optimize_moves
MaxReplay == 2     \* longest move list handed to validate_moves
MaxChunks == 2     \* update_playlist_track_order is handed up to MaxChunks full chunks and one more id
MaxJobLen == 3     \* longest ordering of a reorder job

IdOrder == <<"a", "b", "c", "d", "e">>
Ids == {IdOrder[k] : k \in 1..Len(IdOrder)}

RECURSIVE SeqsUpTo(_, _)
SeqsUpTo(S, n) ==
    IF n = 0 THEN {<<>>}
    ELSE LET shorter == SeqsUpTo(S, n - 1)
         IN  shorter \cup {Append(s, x) : s \in {q \in shorter : Len(q) = n - 1}, x \in S}

Orderings == SeqsUpTo(Ids, MaxLen)

\* The engine only ever compares identifiers for equality, so the first
\* ordering of a call is drawn up to renaming: its identifiers first occur in
\* the order a, b, c, ...  The second ordering is arbitrary.
Rank(x) == CHOOSE k \in 1..Len(IdOrder) : IdOrder[k] = x
FirstOccurrencesInOrder(seq) ==
    \A i \in 1..Len(seq) :
        \/ Rank(seq[i]) = 1
        \/ \E j \in 1..(i - 1) : Rank(seq[j]) >= Rank(seq[i]) - 1
Originals == {seq \in Orderings : FirstOccurrencesInOrder(seq)}

\* The reversal scenario: ten unique identifiers and their reverse
ScenarioOriginal == <<"t0", "t1", "t2", "t3", "t4", "t5", "t6", "t7", "t8", "t9">>
Reverse(seq) == [i \in 1..Len(seq) |-> seq[Len(seq) + 1 - i]]

\* ------------------------------------------------------- Python list helpers
Elems(seq) == {seq[i] : i \in 1..Len(seq)}

Min2(a, b) == IF a < b THEN a ELSE b
Max2(a, b) == IF a > b THEN a ELSE b

\* seq[a:b] for 0 <= a, with Python's clamping of the upper end
Slice(seq, a, b) == SubSeq(seq, a + 1, Min2(b, Len(seq)))

\* del seq[a:b]
DelSlice(seq, a, b) == SubSeq(seq, 1, a) \o SubSeq(seq, Min2(b, Len(seq)) + 1, Len(seq))

\* seq.insert(idx, x) for idx >= 0: an index past the end appends
ListInsert(seq, idx, x) ==
    LET k == Min2(idx, Len(seq))
    IN  SubSeq(seq, 1, k) \o <<x>> \o SubSeq(seq, k + 1, Len(seq))

\* seq.index(x): the first 0-based index; -1 stands for ValueError
ListIndex(seq, x) ==
    IF x \in Elems(seq)
    THEN (CHOOSE i \in 1..Len(seq) : seq[i] = x /\ \A j \in 1..(i - 1) : seq[j] # x) - 1
    ELSE -1

\* Optional values (None is the empty sequence, Some(x) the one-element one)
None == <<>>
Some(x) == <<x>>

\* --------------------------------------------------------------- PlaylistMove
PlaylistMove(rs, ib, rl) == [range_start |-> rs, insert_before |-> ib, range_length |-> rl]

\* ---------------------------------------------------------- _apply_move_to_list
InvalidRange(playlist, move) ==
    \/ move.range_start < 0
    \/ move.range_start >= Len(playlist)
    \/ move.range_start + move.range_length > Len(playlist)

\* InsertItems that assigns to the destination indices instead of inserting
RECURSIVE InsertItems_Overwrites(_, _, _, _)
InsertItems_Overwrites(playlist, insert_pos, items, i) ==
    IF i >= Len(items) THEN playlist
    ELSE LET k == insert_pos + i
             written == IF k < Len(playlist)
                        THEN [playlist EXCEPT ![k + 1] = items[i + 1]]
                        ELSE Append(playlist, items[i + 1])
         IN  InsertItems_Overwrites(written, insert_pos, items, i + 1)

RECURSIVE InsertItems(_, _, _, _)
InsertItems(playlist, insert_pos, items, i) ==
    IF i >= Len(items) THEN playlist
    ELSE InsertItems(ListInsert(playlist, insert_pos + i, items[i + 1]), insert_pos, items, i + 1)

\* InsertPos without the shift for a block removed before the destination
InsertPos_NoAdjust(playlist, move) ==
    LET rest == DelSlice(playlist, move.range_start, move.range_start + move.range_length)
    IN  Max2(0, Min2(move.insert_before, Len(rest)))

InsertPos(playlist, move) ==
    LET rest == DelSlice(playlist, move.range_start, move.range_start + move.range_length)
        adjusted == IF move.insert_before > move.range_start
                    THEN move.insert_before - move.range_length
                    ELSE move.insert_before
    IN  Max2(0, Min2(adjusted, Len(rest)))

\* The call's whole effect: the list afterwards and how the call ended.  The
\* invalid-range branch prints a warning and returns; nothing is raised.
apply_move_to_list(playlist, move) ==
    IF InvalidRange(playlist, move)
    THEN [playlist |-> playlist, outcome |-> "returned", warned |-> TRUE]
    ELSE LET items_to_move == Slice(playlist, move.range_start, move.range_start + move.range_length)
             rest == DelSlice(playlist, move.range_start, move.range_start + move.range_length)
         IN  [playlist |-> InsertItems(rest, InsertPos(playlist, move), items_to_move, 0),
              outcome |-> "returned", warned |-> FALSE]

ApplyMove(playlist, move) == apply_move_to_list(playlist, move).playlist

\* Replaying a move list in order on a copy of a list
RECURSIVE Replay(_, _)
Replay(playlist, moves) ==
    IF moves = <<>> THEN playlist
    ELSE Replay(ApplyMove(playlist, Head(moves)), Tail(moves))

\* ----------------------------------------------------------- rationals (floats)
Rat(n, d) == [num |-> n, den |-> d]
RatGt(x, y) == x.num * y.den > y.num * x.den
RatLt(x, y) == x.num * y.den < y.num * x.den

SimilarityThreshold == Rat(7, 10)     \* similarity > 0.7
MoveRatioThreshold == Rat(4, 10)      \* move_ratio < 0.4
RewriteFactor == Rat(5, 10)           \* len(moves) < len(original) * 0.5

\* -------------------------------------------------------- _calculate_similarity
\* Abs left out: the signed difference of the two positions
Abs_Signed(x) == x

Abs(x) == IF x < 0 THEN -x ELSE x

RECURSIVE SumScores_MaxDiffIsLen(_, _, _, _)
\* SumScores with max_diff taken as len(original)
SumScores_MaxDiffIsLen(original, new, i, total) ==
    IF i >= Len(original) THEN total
    ELSE LET new_position == ListIndex(new, original[i + 1])
             max_diff == Len(original)
             score == IF max_diff > 0 THEN max_diff - Abs(i - new_position) ELSE 1
         IN  IF new_position = -1
             THEN SumScores_MaxDiffIsLen(original, new, i + 1, total)
             ELSE SumScores_MaxDiffIsLen(original, new, i + 1, total + score)

RECURSIVE SumScores(_, _, _, _)
\* the numerator of total_score over the denominator max_diff (or 1)
SumScores(original, new, i, total) ==
    IF i >= Len(original) THEN total
    ELSE LET new_position == ListIndex(new, original[i + 1])
             max_diff == Len(original) - 1
             score == IF max_diff > 0 THEN max_diff - Abs(i - new_position) ELSE 1
         IN  IF new_position = -1
             THEN SumScores(original, new, i + 1, total)
             ELSE SumScores(original, new, i + 1, total + score)

calculate_similarity(original, new) ==
    IF Len(original) # Len(new) THEN Rat(0, 1)
    ELSE IF original = <<>> THEN Rat(1, 1)
    ELSE LET max_diff == Len(original) - 1
             unit == IF max_diff > 0 THEN max_diff ELSE 1
         IN  Rat(SumScores(original, new, 0, 0), unit * Len(original))

\* ------------------------------------------------- optimize_moves and its helper
\* try_combine_moves that accepts a second destination at or after the first
try_combine_moves_LaterDestination(move1, move2) ==
    IF /\ move1.range_start + move1.range_length = move2.range_start
       /\ move1.insert_before <= move2.insert_before
    THEN Some(PlaylistMove(move1.range_start, move1.insert_before,
                           move1.range_length + move2.range_length))
    ELSE None

\* try_combine_moves that does not compare the two destinations
try_combine_moves_IgnoresDestination(move1, move2) ==
    IF move1.range_start + move1.range_length = move2.range_start
    THEN Some(PlaylistMove(move1.range_start, move1.insert_before,
                           move1.range_length + move2.range_length))
    ELSE None

try_combine_moves(move1, move2) ==
    IF /\ move1.range_start + move1.range_length = move2.range_start
       /\ move1.insert_before = move2.insert_before
    THEN Some(PlaylistMove(move1.range_start, move1.insert_before,
                           move1.range_length + move2.range_length))
    ELSE None

RECURSIVE OptimizeLoop(_, _, _)
OptimizeLoop(moves, i, optimized) ==
    IF i >= Len(moves) THEN optimized
    ELSE LET current_move == moves[i + 1]
             combined == IF i + 1 < Len(moves)
                         THEN try_combine_moves(current_move, moves[i + 2])
                         ELSE None
         IN  IF combined # None
             THEN OptimizeLoop(moves, i + 2, Append(optimized, combined[1]))
             ELSE OptimizeLoop(moves, i + 1, Append(optimized, current_move))

optimize_moves(moves) ==
    IF Len(moves) <= 1 THEN moves ELSE OptimizeLoop(moves, 0, <<>>)

\* ------------------------------------------------------------------- inputs
\* moves handed directly to _apply_move_to_list, in and out of range
SimMoves ==
    {PlaylistMove(rs, ib, rl) : rs \in (-1)..MaxLen, ib \in (-1)..(MaxLen + 1), rl \in 1..MaxLen}

\* moves handed to optimize_moves
OptMoves ==
    {PlaylistMove(rs, ib, rl) : rs \in 0..(MaxLen - 1), ib \in {0, MaxLen}, rl \in 1..2}

MoveLists == SeqsUpTo(OptMoves, MaxMoves)

\* validate_moves: _apply_move_to_list never looks at the elements, so the
\* list of distinct identifiers of each length stands for every list of that
\* length; on the shorter ones some of the moves are out of range
ReplayOriginals == {seq \in Originals : Cardinality(Elems(seq)) = Len(seq)}
ReplayMoveLists == SeqsUpTo(OptMoves, MaxReplay)

\* move lists handed to apply_intelligent_reorder: the executor never looks
\* into a move, so distinct one-track moves are enough to tell the order
ExecMoves == {PlaylistMove(rs, 0, 1) : rs \in 1..MaxMoves}
ExecMoveLists == SeqsUpTo(ExecMoves, MaxMoves)

\* track lists handed to update_playlist_track_order: numbered tracks, of every
\* length up to MaxChunks full chunks and one more track
chunk_size == 100
NumberedTracks(n) == [k \in 1..n |-> k]
RewriteInputs == {NumberedTracks(n) : n \in 0..(MaxChunks * chunk_size + 1)}

\* the answers of the playlist endpoint: two that count as success, one that does not
StatusCodes == {200, 201, 429}

\* reorder jobs: process_reorder_job reaches its step 4 only with tracks and a
\* new order that are not empty (job_processor.py lines 60 and 106)
ReorderMethods == {"auto", "intelligent", "full_rewrite"}
JobOriginals == {o \in Originals : Len(o) >= 1 /\ Len(o) <= MaxJobLen}
JobOrderings == SeqsUpTo(Ids, MaxJobLen) \ {<<>>}

\* a job whose plan has two moves: two separate pairs of neighbours exchanged
TwoSwapsOriginal == <<"a", "b", "c", "d", "e">>
TwoSwapsTarget == <<"b", "a", "d", "c", "e">>

\* -------------------------------------------------------------------- state
VARIABLES
    pc,               \* "start", "plan_loop", "extend_run", "exec_loop",
                      \* "validate_loop", "rewrite_loop", "done", and for a job
                      \* "dispatch", "raised", "job_done"
    op,               \* the operation in progress
    original_order,   \* calculate_reorder_strategy's first argument
    new_order,        \* calculate_reorder_strategy's second argument
    called,           \* the helpers calculate_reorder_strategy has invoked
    similarity,       \* Some(value) once _calculate_similarity returned
    current,          \* the planner's working copy
    moves,            \* the planner's move list
    target_pos,       \* the planner's loop variable
    current_pos,      \* the planner's current.index(target_track)
    sequence_length,  \* the planner's run length
    result,           \* Some(dict) once calculate_reorder_strategy returned
    playlist_in,      \* the list handed to _apply_move_to_list, as it was
    move_in,          \* Some(move) handed to _apply_move_to_list
    applied,          \* Some(effect) once _apply_move_to_list ended
    moves_in,         \* the move list handed to optimize_moves, validate_moves or
                      \* apply_intelligent_reorder
    optimized,        \* Some(list) once optimize_moves returned
    test_list,        \* validate_moves' copy of the original
    replayed,         \* how many moves validate_moves has applied
    validated,        \* Some(bool) once validate_moves returned
    exec_i,           \* apply_intelligent_reorder's loop index
    issued,           \* the requests made to reorder_playlist_tracks, in order,
                      \* each with the answer it got
    success_count,    \* apply_intelligent_reorder's counter
    reordered,        \* Some(bool) once apply_intelligent_reorder returned
    track_ids,        \* update_playlist_track_order's argument
    rw_i,             \* update_playlist_track_order's loop index
    requests,         \* the requests update_playlist_track_order has sent, in order
    rewritten,        \* Some("True" | "False" | "None") once it returned
    headers,          \* whether get_headers gave update_playlist_track_order headers
    reorder_method,   \* job.reorder_method
    job_status,       \* job.status, "none" when the run is not a job
    invoked,          \* the executor methods _apply_reorder_strategy has invoked
    info_method,      \* strategy_info["method"]
    raised,           \* an exception reached _apply_reorder_strategy's handler
    applied_ok        \* Some(success) once _apply_reorder_strategy returned

vars == <<pc, op, original_order, new_order, called, similarity, current, moves,
          target_pos, current_pos, sequence_length, result,
          playlist_in, move_in, applied, moves_in, optimized,
          test_list, replayed, validated, exec_i, issued, success_count, reordered,
          track_ids, rw_i, requests, rewritten, headers,
          reorder_method, job_status, invoked, info_method, raised, applied_ok>>

plannerVars == <<current, moves, target_pos, current_pos, sequence_length>>
simulatorVars == <<playlist_in, move_in, applied>>
optimizerVars == <<moves_in, optimized>>
validatorVars == <<test_list, replayed, validated>>
executorVars == <<exec_i, issued, success_count, reordered>>
rewriteVars == <<track_ids, rw_i, requests, rewritten, headers>>
jobVars == <<reorder_method, job_status, invoked, info_method, raised, applied_ok>>

Init ==
    /\ pc = "start"
    /\ op = "none"
    /\ original_order = <<>>
    /\ new_order = <<>>
    /\ called = {}
    /\ similarity = None
    /\ current = <<>>
    /\ moves = <<>>
    /\ target_pos = 0
    /\ current_pos = 0
    /\ sequence_length = 0
    /\ result = None
    /\ playlist_in = <<>>
    /\ move_in = None
    /\ applied = None
    /\ moves_in = <<>>
    /\ optimized = None
    /\ test_list = <<>>
    /\ replayed = 0
    /\ validated = None
    /\ exec_i = 0
    /\ issued = <<>>
    /\ success_count = 0
    /\ reordered = None
    /\ track_ids = <<>>
    /\ rw_i = 0
    /\ requests = <<>>
    /\ rewritten = None
    /\ headers = FALSE
    /\ reorder_method = "none"
    /\ job_status = "none"
    /\ invoked = <<>>
    /\ info_method = "none"
    /\ raised = FALSE
    /\ applied_ok = None

\* ------------------------------------------------ calculate_reorder_strategy
EarlyReturn(reason) ==
    [strategy |-> "full_rewrite", reason |-> reason, keys |-> {"strategy", "reason"},
     moves |-> None, similarity |-> None, efficiency_gain |-> None, move_count |-> None]

\* PreconditionFailure without the comparison of the element sets
PreconditionFailure_NoSetCheck(o, t) ==
    IF o = <<>> \/ t = <<>> THEN "Empty playlist"
    ELSE IF Len(o) # Len(t) THEN "Different track counts"
    ELSE "none"

PreconditionFailure(o, t) ==
    IF o = <<>> \/ t = <<>> THEN "Empty playlist"
    ELSE IF Len(o) # Len(t) THEN "Different track counts"
    ELSE IF Elems(o) # Elems(t) THEN "Different tracks"
    ELSE "none"

\* lines 27-51: the checks, the scorer, and the planner's first two statements
CallStrategy(o, t) ==
    /\ pc = "start"
    /\ op' = "calculate_reorder_strategy"
    /\ original_order' = o
    /\ new_order' = t
    /\ IF PreconditionFailure(o, t) # "none"
       THEN /\ result' = Some(EarlyReturn(PreconditionFailure(o, t)))
            /\ pc' = "done"
            /\ UNCHANGED <<called, similarity, plannerVars>>
       ELSE /\ similarity' = Some(calculate_similarity(o, t))
            /\ called' = {"_calculate_similarity", "_calculate_minimal_moves"}
            /\ moves' = <<>>
            /\ current' = o
            /\ target_pos' = 0
            /\ pc' = "plan_loop"
            /\ UNCHANGED <<current_pos, sequence_length, result>>
    /\ UNCHANGED <<simulatorVars, optimizerVars, validatorVars, executorVars,
                   rewriteVars, jobVars>>

\* --------------------------------------------- _calculate_similarity, called alone
\* lines 77-101, on what the selector's checks let through and on the empty ordering
CallSimilarity(o, t) ==
    /\ pc = "start"
    /\ Len(o) = Len(t) /\ Elems(o) = Elems(t)
    /\ op' = "_calculate_similarity"
    /\ original_order' = o
    /\ new_order' = t
    /\ similarity' = Some(calculate_similarity(o, t))
    /\ pc' = "done"
    /\ UNCHANGED <<called, plannerVars, result, simulatorVars, optimizerVars,
                   validatorVars, executorVars, rewriteVars, jobVars>>

\* ------------------------------------------ _calculate_minimal_moves, called alone
\* The planner's contract is that compatibility was checked by its caller; alone
\* it is called on what those checks let through, and on the empty ordering.
PlannerInput(o, t) == Len(o) = Len(t) /\ Elems(o) = Elems(t)

\* lines 108-109
CallPlanner(o, t) ==
    /\ pc = "start"
    /\ PlannerInput(o, t)
    /\ op' = "_calculate_minimal_moves"
    /\ original_order' = o
    /\ new_order' = t
    /\ moves' = <<>>
    /\ current' = o
    /\ target_pos' = 0
    /\ pc' = "plan_loop"
    /\ UNCHANGED <<called, similarity, current_pos, sequence_length, result,
                   simulatorVars, optimizerVars, validatorVars, executorVars,
                   rewriteVars, jobVars>>

\* AlreadyInPlace comparing against the 1-based position
AlreadyInPlace_OneBased(found, pos) == found = pos + 1

\* line 123
AlreadyInPlace(found, pos) == found = pos

\* lines 112-127: one pass of the for loop up to the run-extension loop
PlanLoop ==
    /\ pc = "plan_loop"
    /\ target_pos < Len(new_order)
    /\ LET target_track == new_order[target_pos + 1]
           found == ListIndex(current, target_track)
       IN  IF found = -1
           THEN /\ target_pos' = target_pos + 1
                /\ UNCHANGED <<pc, current_pos, sequence_length>>
           ELSE IF AlreadyInPlace(found, target_pos)
           THEN /\ target_pos' = target_pos + 1
                /\ current_pos' = found
                /\ UNCHANGED <<pc, sequence_length>>
           ELSE /\ current_pos' = found
                /\ sequence_length' = 1
                /\ pc' = "extend_run"
                /\ UNCHANGED target_pos
    /\ UNCHANGED <<op, original_order, new_order, called, similarity, current, moves,
                   result, simulatorVars, optimizerVars, validatorVars, executorVars,
                   rewriteVars, jobVars>>

\* ExtendCond comparing the target's next track with the working copy's
\* previous one
ExtendCond_ComparesPrevious ==
    /\ target_pos + sequence_length < Len(new_order)
    /\ current_pos + sequence_length < Len(current)
    /\ new_order[target_pos + sequence_length + 1] = current[current_pos + sequence_length]

\* lines 128-130: the condition of the while loop
ExtendCond ==
    /\ target_pos + sequence_length < Len(new_order)
    /\ current_pos + sequence_length < Len(current)
    /\ new_order[target_pos + sequence_length + 1] = current[current_pos + sequence_length + 1]

\* line 131
ExtendRun ==
    /\ pc = "extend_run"
    /\ ExtendCond
    /\ sequence_length' = sequence_length + 1
    /\ UNCHANGED <<pc, op, original_order, new_order, called, similarity, current, moves,
                   target_pos, current_pos, result, simulatorVars, optimizerVars, validatorVars, executorVars,
                   rewriteVars, jobVars>>

\* PlannedMove that takes one track more than the run that was measured
PlannedMove_RunLengthOffByOne ==
    IF current_pos > target_pos
    THEN PlaylistMove(current_pos, target_pos, sequence_length + 1)
    ELSE PlaylistMove(current_pos, target_pos + 1, sequence_length + 1)

\* PlannedMove that always writes the destination of the forward branch
PlannedMove_ForwardDestination ==
    PlaylistMove(current_pos, target_pos + 1, sequence_length)

\* PlannedMove with the two positions of a backward move exchanged
PlannedMove_SwappedPositions ==
    IF current_pos > target_pos
    THEN PlaylistMove(target_pos, current_pos, sequence_length)
    ELSE PlaylistMove(current_pos, target_pos + 1, sequence_length)

\* lines 134-147
PlannedMove ==
    IF current_pos > target_pos
    THEN PlaylistMove(current_pos, target_pos, sequence_length)
    ELSE PlaylistMove(current_pos, target_pos + 1, sequence_length)

\* EmitMove that records the move without applying it to the working list
EmitMove_NotApplied ==
    /\ pc = "extend_run"
    /\ ~ExtendCond
    /\ moves' = Append(moves, PlannedMove)
    /\ target_pos' = target_pos + 1
    /\ pc' = "plan_loop"
    /\ UNCHANGED <<op, original_order, new_order, called, similarity, current, current_pos,
                   sequence_length, result, simulatorVars, optimizerVars, validatorVars,
                   executorVars, rewriteVars, jobVars>>

\* EmitMove on a working list that is the caller's list itself, not a copy
EmitMove_NoCopy ==
    /\ pc = "extend_run"
    /\ ~ExtendCond
    /\ moves' = Append(moves, PlannedMove)
    /\ current' = ApplyMove(current, PlannedMove)
    /\ original_order' = ApplyMove(current, PlannedMove)
    /\ target_pos' = target_pos + 1
    /\ pc' = "plan_loop"
    /\ UNCHANGED <<op, new_order, called, similarity, current_pos,
                   sequence_length, result, simulatorVars, optimizerVars, validatorVars,
                   executorVars, rewriteVars, jobVars>>

\* EmitMove that looks at the same target position again after a move
EmitMove_NoAdvance ==
    /\ pc = "extend_run"
    /\ ~ExtendCond
    /\ moves' = Append(moves, PlannedMove)
    /\ current' = ApplyMove(current, PlannedMove)
    /\ pc' = "plan_loop"
    /\ UNCHANGED <<op, original_order, new_order, called, similarity, target_pos, current_pos,
                   sequence_length, result, simulatorVars, optimizerVars, validatorVars, executorVars,
                   rewriteVars, jobVars>>

\* lines 133-152: the move is built, recorded and applied to the working copy
EmitMove ==
    /\ pc = "extend_run"
    /\ ~ExtendCond
    /\ moves' = Append(moves, PlannedMove)
    /\ current' = ApplyMove(current, PlannedMove)
    /\ target_pos' = target_pos + 1
    /\ pc' = "plan_loop"
    /\ UNCHANGED <<op, original_order, new_order, called, similarity, current_pos,
                   sequence_length, result, simulatorVars, optimizerVars, validatorVars, executorVars,
                   rewriteVars, jobVars>>

\* line 55
\* HighSimilarityFewMoves with a move-ratio limit above one half
HighSimilarityFewMoves_LooseRatio(sim, m, n) ==
    RatGt(sim, SimilarityThreshold) /\ RatLt(Rat(m, n), Rat(8, 10))

HighSimilarityFewMoves(sim, m, n) ==
    RatGt(sim, SimilarityThreshold) /\ RatLt(Rat(m, n), MoveRatioThreshold)

\* FewerMovesThanRewrite with the comparison turned around
FewerMovesThanRewrite_Reversed(m, n) ==
    RatGt(Rat(m, 1), Rat(n * RewriteFactor.num, RewriteFactor.den))

\* FewerMovesThanRewrite with the comparison made inclusive
FewerMovesThanRewrite_Inclusive(m, n) ==
    ~RatGt(Rat(m, 1), Rat(n * RewriteFactor.num, RewriteFactor.den))

\* line 59
FewerMovesThanRewrite(m, n) ==
    RatLt(Rat(m, 1), Rat(n * RewriteFactor.num, RewriteFactor.den))

\* Decision that returns None for an empty move list too
Decision_EmptyMovesAsNone(sim, planned, n) ==
    LET m == Len(planned)
        gain == Rat(n - m, n)
        full(strategy, efficiency_gain, reason) ==
            [strategy |-> strategy, reason |-> reason,
             keys |-> {"strategy", "moves", "similarity", "efficiency_gain", "move_count", "reason"},
             moves |-> IF strategy = "intelligent_moves" /\ planned # <<>>
                       THEN Some(planned) ELSE None,
             similarity |-> Some(sim), efficiency_gain |-> Some(efficiency_gain),
             move_count |-> Some(m)]
    IN  IF HighSimilarityFewMoves(sim, m, n)
        THEN full("intelligent_moves", gain, "High similarity with few moves needed")
        ELSE IF FewerMovesThanRewrite(m, n)
        THEN full("intelligent_moves", gain, "Fewer moves than full rewrite")
        ELSE full("full_rewrite", Rat(0, 1), "Too many moves needed")

\* lines 52-75, on the planner's return value
Decision(sim, planned, n) ==
    LET m == Len(planned)
        gain == Rat(n - m, n)
        full(strategy, efficiency_gain, reason) ==
            [strategy |-> strategy, reason |-> reason,
             keys |-> {"strategy", "moves", "similarity", "efficiency_gain", "move_count", "reason"},
             moves |-> IF strategy = "intelligent_moves" THEN Some(planned) ELSE None,
             similarity |-> Some(sim), efficiency_gain |-> Some(efficiency_gain),
             move_count |-> Some(m)]
    IN  IF HighSimilarityFewMoves(sim, m, n)
        THEN full("intelligent_moves", gain, "High similarity with few moves needed")
        ELSE IF FewerMovesThanRewrite(m, n)
        THEN full("intelligent_moves", gain, "Fewer moves than full rewrite")
        ELSE full("full_rewrite", Rat(0, 1), "Too many moves needed")

\* line 154 and lines 52-75: the planner returns and the strategy is decided
StrategyReturn ==
    /\ pc = "plan_loop"
    /\ op = "calculate_reorder_strategy"
    /\ target_pos >= Len(new_order)
    /\ result' = Some(Decision(similarity[1], moves, Len(original_order)))
    /\ pc' = "done"
    /\ UNCHANGED <<op, original_order, new_order, called, similarity, plannerVars,
                   simulatorVars, optimizerVars, validatorVars, executorVars,
                   rewriteVars, jobVars>>

\* line 154, when the planner was called alone
PlannerReturn ==
    /\ pc = "plan_loop"
    /\ op = "_calculate_minimal_moves"
    /\ target_pos >= Len(new_order)
    /\ pc' = "done"
    /\ UNCHANGED <<op, original_order, new_order, called, similarity, plannerVars, result,
                   simulatorVars, optimizerVars, validatorVars, executorVars,
                   rewriteVars, jobVars>>

\* ------------------------------------------- _apply_move_to_list, called alone
CallApplyMove(p, m) ==
    /\ pc = "start"
    /\ op' = "_apply_move_to_list"
    /\ playlist_in' = p
    /\ move_in' = Some(m)
    /\ applied' = Some(apply_move_to_list(p, m))
    /\ pc' = "done"
    /\ UNCHANGED <<original_order, new_order, called, similarity, plannerVars, result,
                   optimizerVars, validatorVars, executorVars, rewriteVars, jobVars>>

\* ------------------------------------------------------ optimize_moves, called alone
CallOptimize(ms) ==
    /\ pc = "start"
    /\ op' = "optimize_moves"
    /\ moves_in' = ms
    /\ optimized' = Some(optimize_moves(ms))
    /\ pc' = "done"
    /\ UNCHANGED <<original_order, new_order, called, similarity, plannerVars, result,
                   simulatorVars, validatorVars, executorVars, rewriteVars, jobVars>>

\* --------------------------------------------------------------- validate_moves
\* line 189
CallValidate(o, ms) ==
    /\ pc = "start"
    /\ op' = "validate_moves"
    /\ original_order' = o
    /\ moves_in' = ms
    /\ test_list' = o
    /\ replayed' = 0
    /\ pc' = "validate_loop"
    /\ UNCHANGED <<new_order, called, similarity, plannerVars, result, simulatorVars,
                   optimized, validated, executorVars, rewriteVars, jobVars>>

\* lines 191-193 and 195-197: one move of the loop; an exception would end the
\* call with False
ValidateStep ==
    /\ pc = "validate_loop"
    /\ replayed < Len(moves_in)
    /\ LET effect == apply_move_to_list(test_list, moves_in[replayed + 1])
       IN  /\ test_list' = effect.playlist
           /\ IF effect.outcome = "raised"
              THEN /\ validated' = Some(FALSE)
                   /\ pc' = "done"
                   /\ UNCHANGED replayed
              ELSE /\ replayed' = replayed + 1
                   /\ UNCHANGED <<pc, validated>>
    /\ UNCHANGED <<op, original_order, new_order, called, similarity, plannerVars, result,
                   simulatorVars, optimizerVars, executorVars, rewriteVars, jobVars>>

\* line 194
ValidateReturn ==
    /\ pc = "validate_loop"
    /\ replayed >= Len(moves_in)
    /\ validated' = Some(TRUE)
    /\ pc' = "done"
    /\ UNCHANGED <<op, original_order, new_order, called, similarity, plannerVars, result,
                   simulatorVars, optimizerVars, test_list, replayed, executorVars,
                   rewriteVars, jobVars>>

\* ------------------------------ SpotifyPlaylistOps.apply_intelligent_reorder
\* spotify.py lines 249-258
CallExecutor(ms) ==
    /\ pc = "start"
    /\ op' = "apply_intelligent_reorder"
    /\ moves_in' = ms
    /\ exec_i' = 0
    /\ success_count' = 0
    /\ issued' = <<>>
    /\ pc' = "exec_loop"
    /\ UNCHANGED <<original_order, new_order, called, similarity, plannerVars, result,
                   simulatorVars, optimized, validatorVars, reordered, rewriteVars, jobVars>>

\* IssueMove that goes on to the next move after a failed one
IssueMove_ContinuesAfterFailure ==
    /\ pc = "exec_loop"
    /\ exec_i < Len(moves_in)
    /\ \E success \in BOOLEAN :
          /\ issued' = Append(issued, [move |-> moves_in[exec_i + 1], success |-> success])
          /\ success_count' = IF success THEN success_count + 1 ELSE success_count
          /\ exec_i' = exec_i + 1
          /\ UNCHANGED <<pc, reordered>>
    /\ UNCHANGED <<op, original_order, new_order, called, similarity, plannerVars, result,
                   simulatorVars, optimizerVars, validatorVars, rewriteVars, jobVars>>

\* spotify.py lines 259-273: one pass of the loop; reorder_playlist_tracks
\* (lines 211-247) answers True on status 200 and False otherwise
IssueMove ==
    /\ pc = "exec_loop"
    /\ exec_i < Len(moves_in)
    /\ \E success \in BOOLEAN :
          /\ issued' = Append(issued, [move |-> moves_in[exec_i + 1], success |-> success])
          /\ IF success
             THEN /\ success_count' = success_count + 1
                  /\ exec_i' = exec_i + 1
                  /\ UNCHANGED <<pc, reordered>>
             ELSE /\ reordered' = Some(FALSE)
                  /\ pc' = "done"
                  /\ UNCHANGED <<exec_i, success_count>>
    /\ UNCHANGED <<op, original_order, new_order, called, similarity, plannerVars, result,
                   simulatorVars, optimizerVars, validatorVars, rewriteVars, jobVars>>

\* spotify.py lines 275-276
ExecutorReturn ==
    /\ pc = "exec_loop"
    /\ exec_i >= Len(moves_in)
    /\ reordered' = Some(success_count = Len(moves_in))
    /\ pc' = "done"
    /\ UNCHANGED <<op, original_order, new_order, called, similarity, plannerVars, result,
                   simulatorVars, optimizerVars, validatorVars, exec_i, issued,
                   success_count, rewriteVars, jobVars>>

\* ---------------------------- SpotifyPlaylistOps.update_playlist_track_order
\* spotify.py lines 138-144
StartRewrite(ids, hdrs) ==
    /\ op' = "update_playlist_track_order"
    /\ track_ids' = ids
    /\ headers' = hdrs
    /\ requests' = <<>>
    /\ rw_i' = 0
    /\ IF ~hdrs \/ ids = <<>>
       THEN /\ rewritten' = Some("None")
            /\ pc' = "done"
       ELSE /\ rewritten' = None
            /\ pc' = "rewrite_loop"

CallRewrite(ids, hdrs) ==
    /\ pc = "start"
    /\ StartRewrite(ids, hdrs)
    /\ UNCHANGED <<original_order, new_order, called, similarity, plannerVars, result,
                   simulatorVars, optimizerVars, validatorVars, executorVars, jobVars>>

\* spotify.py line 148
uris_to_set(chunk) == [k \in 1..Len(chunk) |-> <<"spotify:track:", chunk[k]>>]

\* RequestVerb that sends every chunk as a replace request
RequestVerb_AlwaysPut(i) == "PUT"

\* spotify.py lines 155-166
RequestVerb(i) == IF i = 0 THEN "PUT" ELSE "POST"

\* spotify.py lines 146-172 and 177-178: one pass of the loop; a failed request
\* ends the loop and the call
IssueChunk ==
    /\ pc = "rewrite_loop"
    /\ rw_i < Len(track_ids)
    /\ \E status_code \in StatusCodes :
          LET chunk == Slice(track_ids, rw_i, rw_i + chunk_size)
          IN  /\ requests' = Append(requests, [verb |-> RequestVerb(rw_i),
                                               uris |-> uris_to_set(chunk),
                                               status_code |-> status_code])
              /\ IF status_code \in {200, 201}
                 THEN /\ rw_i' = rw_i + chunk_size
                      /\ UNCHANGED <<pc, rewritten>>
                 ELSE /\ rewritten' = Some("False")
                      /\ pc' = "done"
                      /\ UNCHANGED rw_i
    /\ UNCHANGED <<op, original_order, new_order, called, similarity, plannerVars, result,
                   simulatorVars, optimizerVars, validatorVars, executorVars,
                   track_ids, headers, jobVars>>

\* spotify.py lines 174-176
RewriteReturn ==
    /\ pc = "rewrite_loop"
    /\ rw_i >= Len(track_ids)
    /\ rewritten' = Some("True")
    /\ pc' = "done"
    /\ UNCHANGED <<op, original_order, new_order, called, similarity, plannerVars, result,
                   simulatorVars, optimizerVars, validatorVars, executorVars,
                   track_ids, rw_i, requests, headers, jobVars>>

\* ------------------------------------------------------- ReorderJobProcessor
\* job_processor.py lines 37 and 113-117, then _apply_reorder_strategy lines
\* 228-244: with "auto" and "intelligent" the calculator is entered (lines 40-51
\* of intelligent_reorder.py, as in CallStrategy)
CallJob(method, o, t) ==
    /\ pc = "start"
    /\ o # <<>> /\ t # <<>>
    /\ job_status' = "IN_PROGRESS"
    /\ reorder_method' = method
    /\ info_method' = method
    /\ original_order' = o
    /\ new_order' = t
    /\ IF method \in {"auto", "intelligent"}
       THEN /\ op' = "calculate_reorder_strategy"
            /\ IF PreconditionFailure(o, t) # "none"
               THEN /\ result' = Some(EarlyReturn(PreconditionFailure(o, t)))
                    /\ pc' = "done"
                    /\ UNCHANGED <<called, similarity, plannerVars>>
               ELSE /\ similarity' = Some(calculate_similarity(o, t))
                    /\ called' = {"_calculate_similarity", "_calculate_minimal_moves"}
                    /\ moves' = <<>>
                    /\ current' = o
                    /\ target_pos' = 0
                    /\ pc' = "plan_loop"
                    /\ UNCHANGED <<current_pos, sequence_length, result>>
       ELSE /\ op' = "_apply_reorder_strategy"
            /\ pc' = "dispatch"
            /\ UNCHANGED <<called, similarity, plannerVars, result>>
    /\ UNCHANGED <<simulatorVars, optimizerVars, validatorVars, executorVars, rewriteVars,
                   invoked, raised, applied_ok>>

\* job_processor.py lines 235, 238, 244
chosen_strategy ==
    IF reorder_method = "auto" THEN result[1].strategy
    ELSE IF reorder_method = "intelligent" THEN "intelligent_moves"
    ELSE "full_rewrite"

\* the keys of strategy_info after lines 228, 236 and 242
StrategyInfoKeys == {"method"} \cup (IF result = None THEN {} ELSE result[1].keys)

\* AppliesMoves that tests only that the moves are a list, not that there are any
AppliesMoves_AcceptsEmptyList ==
    /\ chosen_strategy = "intelligent_moves"
    /\ "moves" \in StrategyInfoKeys
    /\ result[1].moves # None

\* job_processor.py lines 249-251: a Python None and an empty list are both falsy
AppliesMoves ==
    /\ chosen_strategy = "intelligent_moves"
    /\ "moves" \in StrategyInfoKeys
    /\ result[1].moves # None
    /\ result[1].moves[1] # <<>>

\* job_processor.py lines 246-258: exactly one executor method is entered
Dispatch ==
    /\ job_status = "IN_PROGRESS"
    /\ invoked = <<>>
    /\ pc = "dispatch" \/ (pc = "done" /\ op = "calculate_reorder_strategy")
    /\ IF AppliesMoves
       THEN /\ invoked' = <<"apply_intelligent_reorder">>
            /\ info_method' = chosen_strategy
            /\ op' = "apply_intelligent_reorder"
            /\ moves_in' = result[1].moves[1]
            /\ exec_i' = 0
            /\ success_count' = 0
            /\ issued' = <<>>
            /\ pc' = "exec_loop"
            /\ UNCHANGED <<reordered, rewriteVars>>
       ELSE /\ invoked' = <<"update_playlist_track_order">>
            /\ info_method' = IF chosen_strategy = "intelligent_moves" /\ "moves" \in StrategyInfoKeys
                              THEN "full_rewrite"
                              ELSE chosen_strategy
            /\ \E hdrs \in BOOLEAN : StartRewrite(new_order, hdrs)
            /\ UNCHANGED <<moves_in, executorVars>>
    /\ UNCHANGED <<original_order, new_order, called, similarity, plannerVars, result,
                   simulatorVars, optimized, validatorVars,
                   reorder_method, job_status, raised, applied_ok>>

\* job_processor.py lines 262-264: an exception of the request in progress
\* reaches the handler of _apply_reorder_strategy
RequestRaises ==
    /\ job_status = "IN_PROGRESS"
    /\ \/ pc = "exec_loop" /\ exec_i < Len(moves_in)
       \/ pc = "rewrite_loop" /\ rw_i < Len(track_ids)
    /\ raised' = TRUE
    /\ pc' = "raised"
    /\ UNCHANGED <<op, original_order, new_order, called, similarity, plannerVars, result,
                   simulatorVars, optimizerVars, validatorVars, executorVars, rewriteVars,
                   reorder_method, job_status, invoked, info_method, applied_ok>>

\* Succeeded that takes every returned value other than None for a success
Succeeded_NotNone ==
    IF raised THEN FALSE
    ELSE IF op = "apply_intelligent_reorder" THEN reordered # None
    ELSE rewritten[1] # "None"

\* the truth value of the success that _apply_reorder_strategy returns
\* (lines 260 and 264), as tested on line 119
Succeeded ==
    IF raised THEN FALSE
    ELSE IF op = "apply_intelligent_reorder" THEN reordered[1]
    ELSE rewritten[1] = "True"

\* job_processor.py lines 260 and 264, then lines 119-156 and _fail_job (266-272)
JobFinish ==
    /\ job_status = "IN_PROGRESS"
    /\ invoked # <<>>
    /\ pc \in {"done", "raised"}
    /\ applied_ok' = Some(Succeeded)
    /\ job_status' = IF Succeeded THEN "COMPLETED" ELSE "FAILED"
    /\ pc' = "job_done"
    /\ UNCHANGED <<op, original_order, new_order, called, similarity, plannerVars, result,
                   simulatorVars, optimizerVars, validatorVars, executorVars, rewriteVars,
                   reorder_method, invoked, info_method, raised>>

Next ==
    \/ (pc = "start" /\ \E o \in Originals, t \in Orderings : CallStrategy(o, t))
    \/ (pc = "start" /\ CallStrategy(ScenarioOriginal, Reverse(ScenarioOriginal)))
    \/ (pc = "start" /\ \E o \in Originals, t \in Orderings : CallSimilarity(o, t))
    \/ (pc = "start" /\ \E o \in Originals, t \in Orderings : CallPlanner(o, t))
    \/ PlanLoop
    \/ ExtendRun
    \/ EmitMove
    \/ StrategyReturn
    \/ PlannerReturn
    \/ (pc = "start" /\ \E p \in Originals, m \in SimMoves : CallApplyMove(p, m))
    \/ (pc = "start" /\ \E ms \in MoveLists : CallOptimize(ms))
    \/ (pc = "start" /\ \E o \in ReplayOriginals, ms \in ReplayMoveLists : CallValidate(o, ms))
    \/ ValidateStep
    \/ ValidateReturn
    \/ (pc = "start" /\ \E ms \in ExecMoveLists : CallExecutor(ms))
    \/ IssueMove
    \/ ExecutorReturn
    \/ (pc = "start" /\ \E ids \in RewriteInputs, hdrs \in BOOLEAN : CallRewrite(ids, hdrs))
    \/ IssueChunk
    \/ RewriteReturn
    \/ (pc = "start" /\ \E method \in ReorderMethods, o \in JobOriginals, t \in JobOrderings :
            CallJob(method, o, t))
    \/ (pc = "start" /\ \E method \in ReorderMethods :
            CallJob(method, TwoSwapsOriginal, TwoSwapsTarget))
    \/ Dispatch
    \/ RequestRaises
    \/ JobFinish

Spec == Init /\ [][Next]_vars

\* ================================================================= properties
Unique(seq) == Cardinality(Elems(seq)) = Len(seq)

Count(seq, x) == Cardinality({i \in 1..Len(seq) : seq[i] = x})
SameMultiset(o, t) == \A x \in Elems(o) \cup Elems(t) : Count(o, x) = Count(t, x)

StrategyCalled == op = "calculate_reorder_strategy"
StrategyReturned == StrategyCalled /\ pc = "done"
PlannerRan == op = "_calculate_minimal_moves" \/ "_calculate_minimal_moves" \in called
PlannerReturned == pc = "done" /\ PlannerRan
InPlanner == pc \in {"plan_loop", "extend_run"}
ApplyReturned == op = "_apply_move_to_list" /\ pc = "done"
OptimizeReturned == op = "optimize_moves" /\ pc = "done"

\* C1: for a target that is a permutation of an original of unique identifiers,
\* replaying the planner's moves in order on a copy of the original gives
\* exactly the target.
C1_RoundTrip ==
    (PlannerReturned /\ Unique(original_order) /\ SameMultiset(original_order, new_order))
        => Replay(original_order, moves) = new_order

C1_Witness ==
    /\ PlannerReturned
    /\ Unique(original_order)
    /\ SameMultiset(original_order, new_order)
    /\ Len(moves) >= 2
    /\ \E k \in 1..Len(moves) : moves[k].range_length >= 2
    /\ Replay(original_order, moves) = new_order

\* C2: whenever calculate_reorder_strategy returns intelligent_moves, for any
\* input its checks let through (repeated identifiers included), replaying the
\* returned moves on a copy of the original gives exactly new_order.
C2_ReplayReproducesTarget ==
    (StrategyReturned /\ result[1].strategy = "intelligent_moves")
        => Replay(original_order, result[1].moves[1]) = new_order

\* C3: when an ordering is empty, the lengths differ or the element sets
\* differ, calculate_reorder_strategy returns full_rewrite with a reason and
\* computes neither a similarity nor a move plan.
FailsChecks(o, t) == o = <<>> \/ t = <<>> \/ Len(o) # Len(t) \/ Elems(o) # Elems(t)

C3_FailsClosed ==
    (StrategyCalled /\ FailsChecks(original_order, new_order))
        => /\ pc = "done"
           /\ result # None
           /\ result[1].strategy = "full_rewrite"
           /\ "reason" \in result[1].keys
           /\ result[1].reason \in {"Empty playlist", "Different track counts", "Different tracks"}
           /\ result[1].moves = None
           /\ called = {}
           /\ similarity = None
           /\ moves = <<>>

C3_Witness ==
    /\ StrategyReturned
    /\ Len(original_order) = Len(new_order)
    /\ original_order # <<>>
    /\ Elems(original_order) # Elems(new_order)
    /\ result[1].reason = "Different tracks"

\* C4: for every pair of orderings that do not hold the same multiset of
\* identifiers, calculate_reorder_strategy short-circuits to full_rewrite
\* before any planning.
C4_MultisetCompatibility ==
    (StrategyCalled /\ ~SameMultiset(original_order, new_order))
        => /\ pc = "done"
           /\ result[1].strategy = "full_rewrite"
           /\ called = {}

\* C5: on inputs that pass the checks, with s the similarity, m the number of
\* planned moves and N the length: s > 0.7 and m/N < 0.4 gives
\* intelligent_moves with gain 1 - m/N; otherwise m < 0.5 N gives
\* intelligent_moves with gain 1 - m/N; otherwise full_rewrite with gain 0
\* and no moves.
Rule1 == 10 * similarity[1].num > 7 * similarity[1].den
         /\ 10 * Len(moves) < 4 * Len(original_order)
Rule2 == 2 * Len(moves) < Len(original_order)

C5_DecisionRule ==
    (StrategyReturned /\ ~FailsChecks(original_order, new_order))
        => LET r == result[1]
               n == Len(original_order)
               m == Len(moves)
           IN  /\ r.similarity = similarity
               /\ r.move_count = Some(m)
               /\ IF Rule1 \/ Rule2
                  THEN /\ r.strategy = "intelligent_moves"
                       /\ r.moves = Some(moves)
                       /\ r.efficiency_gain[1].num * n = (n - m) * r.efficiency_gain[1].den
                       /\ r.reason = IF Rule1 THEN "High similarity with few moves needed"
                                      ELSE "Fewer moves than full rewrite"
                  ELSE /\ r.strategy = "full_rewrite"
                       /\ r.moves = None
                       /\ r.efficiency_gain[1].num = 0
                       /\ r.reason = "Too many moves needed"

C5_Witness ==
    /\ StrategyReturned
    /\ ~FailsChecks(original_order, new_order)
    /\ ~Rule1
    /\ Rule2
    /\ result[1].strategy = "intelligent_moves"
    /\ Len(moves) >= 1

\* C6: the planner returns the empty move list when target equals original,
\* for every ordering of unique identifiers, the empty one included.
C6_Identity ==
    (PlannerReturned /\ Unique(original_order) /\ new_order = original_order)
        => moves = <<>>

C6_Witness ==
    /\ PlannerReturned
    /\ Unique(original_order)
    /\ new_order = original_order
    /\ Len(original_order) >= 3
    /\ moves = <<>>

\* C7: the planner terminates, both loops, with at most one move per target
\* position visited and so at most len(original) moves: every step of the
\* planner strictly decreases a natural-number measure, and the move count
\* never exceeds the number of positions visited.
PlannerMeasure ==
    LET n == Len(new_order)
    IN  IF pc = "plan_loop" THEN (n - target_pos) * (n + 2) + n + 1
        ELSE IF pc = "extend_run"
        THEN (n - target_pos) * (n + 2) + (n - target_pos - sequence_length)
        ELSE 0

PlannerBounds ==
    PlannerRan =>
        /\ target_pos <= Len(new_order)
        /\ Len(moves) <= target_pos
        /\ Len(moves) <= Len(original_order)
        /\ pc = "extend_run" =>
              (sequence_length >= 1 /\ target_pos + sequence_length <= Len(new_order))

C7_BoundedPlan ==
    /\ []PlannerBounds
    /\ [][InPlanner => (PlannerMeasure' < PlannerMeasure /\ PlannerMeasure' >= 0)]_vars

C7_Witness ==
    /\ PlannerReturned
    /\ Len(original_order) >= 3
    /\ Len(moves) >= Len(original_order) - 1
    /\ \E k \in 1..Len(moves) : moves[k].range_length >= 2

\* C8: a move (s, L, ib) with a valid range on a sequence of length n leaves
\* the sequence with the block s..s+L-1 removed and re-inserted, in its own
\* order, at index p = (ib - L if ib > s else ib) clamped to [0, n - L]; the
\* other elements keep their relative order.
BlockRelocated(seq, s, L, ib) ==
    LET n == Len(seq)
        raw == IF ib > s THEN ib - L ELSE ib
        p == IF raw < 0 THEN 0 ELSE IF raw > n - L THEN n - L ELSE raw
        others(k) == IF k < s THEN seq[k + 1] ELSE seq[k + L + 1]
    IN  [i \in 1..n |->
            IF i - 1 < p THEN others(i - 1)
            ELSE IF i - 1 < p + L THEN seq[s + (i - 1 - p) + 1]
            ELSE others(i - 1 - L)]

C8_MoveSemantics ==
    (ApplyReturned /\ ~InvalidRange(playlist_in, move_in[1]))
        => applied[1].playlist =
               BlockRelocated(playlist_in, move_in[1].range_start,
                              move_in[1].range_length, move_in[1].insert_before)

C8_Witness ==
    /\ ApplyReturned
    /\ ~InvalidRange(playlist_in, move_in[1])
    /\ Unique(playlist_in)
    /\ move_in[1].range_length >= 2
    /\ move_in[1].insert_before > move_in[1].range_start + move_in[1].range_length
    /\ applied[1].playlist # playlist_in
    /\ applied[1].playlist =
           BlockRelocated(playlist_in, move_in[1].range_start,
                          move_in[1].range_length, move_in[1].insert_before)

\* C9: with an invalid range, _apply_move_to_list fails with an error its
\* caller sees; it does not return normally.
C9_InvalidRangeIsError ==
    (ApplyReturned /\ InvalidRange(playlist_in, move_in[1]))
        => applied[1].outcome = "raised"

\* C10: optimize_moves is idempotent on every move list.
C10_OptimizeIdempotent ==
    OptimizeReturned => optimize_moves(optimized[1]) = optimized[1]

\* C11: for compatible orderings of unique identifiers the similarity is
\* exactly 1.0 if and only if every element has the same index in both
\* orderings; the empty and the one-element ordering score 1.0.
SimilarityReturned == similarity # None /\ pc = "done"
IsOne(x) == x.num = x.den

C11_SimilarityOneIffIdentical ==
    (SimilarityReturned /\ Unique(original_order) /\ SameMultiset(original_order, new_order))
        => /\ IsOne(similarity[1]) <=> (\A i \in 1..Len(original_order) :
                                            original_order[i] = new_order[i])
           /\ Len(original_order) <= 1 => IsOne(similarity[1])

C11_Witness ==
    /\ SimilarityReturned
    /\ Unique(original_order)
    /\ SameMultiset(original_order, new_order)
    /\ Len(original_order) >= 3
    /\ original_order # new_order
    /\ ~IsOne(similarity[1])
    /\ 10 * similarity[1].num > 7 * similarity[1].den

\* C12: for inputs that pass the checks the similarity lies in [0, 1] and is
\* the mean over i of 1 - |i - j_i| / (N - 1), with j_i the first index of
\* original[i] in target (each term 1 when N = 1); no term is below 0 or
\* above 1.
FirstIndexIn(seq, x) ==
    LET at == {k \in 0..(Len(seq) - 1) : seq[k + 1] = x}
    IN  CHOOSE k \in at : \A other \in at : k <= other

Displacement(o, t, i) ==
    LET j == FirstIndexIn(t, o[i + 1])
    IN  IF i >= j THEN i - j ELSE j - i

RECURSIVE DisplacementSum(_, _, _)
DisplacementSum(o, t, k) ==
    IF k = 0 THEN 0 ELSE Displacement(o, t, k - 1) + DisplacementSum(o, t, k - 1)

C12_SimilarityClosedForm ==
    (SimilarityReturned /\ Len(original_order) = Len(new_order)
                        /\ Elems(original_order) = Elems(new_order))
        => LET n == Len(original_order)
               s == similarity[1]
           IN  /\ s.den > 0
               /\ 0 <= s.num /\ s.num <= s.den
               /\ n = 1 => IsOne(s)
               /\ n >= 2 =>
                     /\ \A i \in 0..(n - 1) :
                            /\ Displacement(original_order, new_order, i) >= 0
                            /\ Displacement(original_order, new_order, i) <= n - 1
                     /\ s.num * (n * (n - 1)) =
                            s.den * (n * (n - 1) - DisplacementSum(original_order, new_order, n))

C12_Witness ==
    /\ SimilarityReturned
    /\ Len(original_order) >= 3
    /\ Len(original_order) = Len(new_order)
    /\ Elems(original_order) = Elems(new_order)
    /\ ~Unique(original_order)
    /\ \E i \in 0..(Len(original_order) - 1) :
           Displacement(original_order, new_order, i) = Len(original_order) - 1
    /\ 0 < similarity[1].num
    /\ similarity[1].num < similarity[1].den

\* C13: apply_intelligent_reorder issues the moves one at a time in list
\* order, issues a move only after every earlier one succeeded, issues none
\* after a failed one and then returns False, and returns True only if every
\* move of the list was issued and succeeded.
ExecutorCalled == op = "apply_intelligent_reorder"

C13_ExecutorOrdering ==
    ExecutorCalled =>
        /\ Len(issued) <= Len(moves_in)
        /\ \A k \in 1..Len(issued) : issued[k].move = moves_in[k]
        /\ \A k \in 1..(Len(issued) - 1) : issued[k].success
        /\ (\E k \in 1..Len(issued) : ~issued[k].success) => reordered = Some(FALSE)
        /\ reordered = Some(FALSE) => (issued # <<>> /\ ~issued[Len(issued)].success)
        /\ reordered = Some(TRUE) =>
               /\ Len(issued) = Len(moves_in)
               /\ \A k \in 1..Len(issued) : issued[k].success
        /\ pc = "done" => reordered # None
        /\ reordered # None => pc \in {"done", "job_done"}

C13_Witness ==
    /\ ExecutorCalled
    /\ pc = "done"
    /\ Len(moves_in) = 3
    /\ Len(issued) = 2
    /\ issued[1].move # issued[2].move
    /\ reordered = Some(FALSE)

\* C14: when target is original (unique identifiers) with two adjacent
\* blocks exchanged, the planner returns exactly one move and replaying it
\* gives target.
BlocksExchanged(o, t, p, a, b) ==
    t = SubSeq(o, 1, p) \o SubSeq(o, p + a + 1, p + a + b) \o SubSeq(o, p + 1, p + a)
            \o SubSeq(o, p + a + b + 1, Len(o))

AdjacentBlockExchange(o, t) ==
    \E p \in 0..Len(o), a \in 1..Len(o), b \in 1..Len(o) :
        p + a + b <= Len(o) /\ BlocksExchanged(o, t, p, a, b)

C14_OneBlockOneMove ==
    (PlannerReturned /\ Unique(original_order)
                     /\ AdjacentBlockExchange(original_order, new_order))
        => (Len(moves) = 1 /\ Replay(original_order, moves) = new_order)

C14_Witness ==
    /\ PlannerReturned
    /\ Unique(original_order)
    /\ Len(original_order) = 4
    /\ BlocksExchanged(original_order, new_order, 0, 2, 2)
    /\ moves = <<PlaylistMove(2, 0, 2)>>
    /\ Replay(original_order, moves) = new_order

\* C15: for ten unique identifiers and their reverse as target,
\* calculate_reorder_strategy returns full_rewrite with efficiency_gain 0,
\* because the number of planned moves is not below half the length.
ReversalScenario ==
    /\ Len(original_order) = 10
    /\ Unique(original_order)
    /\ new_order = Reverse(original_order)

C15_ReverseIsFullRewrite ==
    (StrategyReturned /\ ReversalScenario)
        => /\ result[1].strategy = "full_rewrite"
           /\ result[1].efficiency_gain[1].num = 0
           /\ result[1].moves = None
           /\ 2 * result[1].move_count[1] >= Len(original_order)

C15_Witness ==
    /\ StrategyReturned
    /\ ReversalScenario
    /\ result[1].strategy = "full_rewrite"
    /\ Len(moves) = 9
    /\ current = new_order

\* C16: calculate_reorder_strategy, _calculate_minimal_moves and
\* validate_moves never change the lists their caller handed in; planning and
\* validation change only their private copy.
TakesOrderings == op \in {"calculate_reorder_strategy", "_calculate_minimal_moves", "validate_moves"}

C16_InputsUnchanged ==
    [][/\ TakesOrderings => (original_order' = original_order /\ new_order' = new_order)
       /\ op = "validate_moves" => moves_in' = moves_in]_vars

C16_Witness ==
    /\ PlannerReturned
    /\ Len(moves) >= 2
    /\ current # original_order
    /\ current = new_order

\* C17: for compatible orderings of unique identifiers every move the planner
\* emits is in bounds for the working list it is applied to (0 <= s, L >= 1,
\* s + L <= N, 0 <= ib <= N), so the simulator's invalid-range branch is taken
\* neither while planning nor while replaying the plan on the original.
InBounds(playlist, move) ==
    /\ 0 <= move.range_start
    /\ move.range_length >= 1
    /\ move.range_start + move.range_length <= Len(playlist)
    /\ 0 <= move.insert_before
    /\ move.insert_before <= Len(playlist)

RECURSIVE ReplayInRange(_, _)
ReplayInRange(playlist, ms) ==
    IF ms = <<>> THEN TRUE
    ELSE /\ ~InvalidRange(playlist, Head(ms))
         /\ ReplayInRange(ApplyMove(playlist, Head(ms)), Tail(ms))

AboutToEmit == pc = "extend_run" /\ ~ExtendCond

C17_PlannedMovesInBounds ==
    (PlannerRan /\ Unique(original_order) /\ SameMultiset(original_order, new_order))
        => /\ AboutToEmit => (InBounds(current, PlannedMove) /\ ~InvalidRange(current, PlannedMove))
           /\ PlannerReturned => ReplayInRange(original_order, moves)

C17_Witness ==
    /\ PlannerRan /\ Unique(original_order) /\ SameMultiset(original_order, new_order)
    /\ AboutToEmit
    /\ moves # <<>>
    /\ sequence_length >= 2
    /\ current_pos + sequence_length = Len(current)

\* C18: optimize_moves is one left-to-right pass: the input splits into
\* consecutive pieces of one or two moves; a piece of two is a pair with
\* m1.range_start + m1.range_length = m2.range_start and equal insert_before
\* and gives the single move (m1.range_start, m1.insert_before, sum of the two
\* lengths); a piece of one is a move that cannot be merged with the move after
\* it and is output unchanged; the pieces keep their order and the sum of
\* range_length is preserved.
Mergeable(m1, m2) ==
    /\ m1.range_start + m1.range_length = m2.range_start
    /\ m1.insert_before = m2.insert_before

Merged(m1, m2) ==
    [range_start |-> m1.range_start, insert_before |-> m1.insert_before,
     range_length |-> m1.range_length + m2.range_length]

RECURSIVE SumTo(_, _)
SumTo(seq, k) == IF k = 0 THEN 0 ELSE seq[k] + SumTo(seq, k - 1)

Pieces(n) == {seg \in SeqsUpTo({1, 2}, n) : SumTo(seg, Len(seg)) = n}

RECURSIVE TotalLength(_)
TotalLength(ms) == IF ms = <<>> THEN 0 ELSE Head(ms).range_length + TotalLength(Tail(ms))

OnePass(in, out, seg) ==
    /\ Len(out) = Len(seg)
    /\ \A k \in 1..Len(seg) :
          LET i == SumTo(seg, k - 1)
          IN  IF seg[k] = 2
              THEN /\ Mergeable(in[i + 1], in[i + 2])
                   /\ out[k] = Merged(in[i + 1], in[i + 2])
              ELSE /\ out[k] = in[i + 1]
                   /\ (i + 2 <= Len(in)) => ~Mergeable(in[i + 1], in[i + 2])

C18_MergeRule ==
    OptimizeReturned
        => /\ \E seg \in Pieces(Len(moves_in)) : OnePass(moves_in, optimized[1], seg)
           /\ TotalLength(optimized[1]) = TotalLength(moves_in)

C18_Witness ==
    /\ OptimizeReturned
    /\ Len(moves_in) = 3
    /\ Len(optimized[1]) = 2
    /\ optimized[1][1] = moves_in[1]
    /\ Mergeable(moves_in[2], moves_in[3])
    /\ optimized[1][2] = Merged(moves_in[2], moves_in[3])

\* C19: for every list and every move list whose moves are all in range when
\* replayed on it, replaying optimize_moves(moves) gives the same final list
\* as replaying moves.
ValidateReturned == op = "validate_moves" /\ pc = "done"

C19_OptimizePreservesEffect ==
    (ValidateReturned /\ ReplayInRange(original_order, moves_in))
        => Replay(original_order, optimize_moves(moves_in)) = test_list

\* C20: validate_moves returns False whenever some move has an out-of-bounds
\* range for the list it is applied to, and True only when the whole list
\* replays without an invalid range.
C20_ValidateDetectsBadPlan ==
    ValidateReturned
        => (validated = Some(TRUE) <=> ReplayInRange(original_order, moves_in))

\* C21: every invocation of _apply_reorder_strategy that does not raise
\* invokes exactly one of apply_intelligent_reorder and
\* update_playlist_track_order; it invokes apply_intelligent_reorder, with the
\* calculator's moves, only when the calculator itself returned
\* intelligent_moves with a move list that is not empty (with reorder_method
\* "intelligent" too), and in every other case update_playlist_track_order
\* with new_track_order.
IsJob == job_status # "none"
JobReturned == IsJob /\ pc = "job_done"

CalculatorChoseMoves ==
    /\ result # None
    /\ result[1].strategy = "intelligent_moves"
    /\ result[1].moves # None
    /\ result[1].moves[1] # <<>>

C21_CallerDispatch ==
    IsJob =>
        /\ Len(invoked) <= 1
        /\ (JobReturned /\ ~raised) => Len(invoked) = 1
        /\ invoked # <<>> =>
              IF CalculatorChoseMoves
              THEN /\ invoked[1] = "apply_intelligent_reorder"
                   /\ moves_in = result[1].moves[1]
                   /\ requests = <<>> /\ rewritten = None
              ELSE /\ invoked[1] = "update_playlist_track_order"
                   /\ track_ids = new_order
                   /\ issued = <<>> /\ reordered = None

C21_Witness ==
    /\ JobReturned /\ ~raised
    /\ reorder_method = "intelligent"
    /\ result # None
    /\ result[1].strategy = "full_rewrite"
    /\ "moves" \in result[1].keys
    /\ invoked = <<"update_playlist_track_order">>
    /\ track_ids = new_order
    /\ job_status = "COMPLETED"

\* C22: if some move fails inside apply_intelligent_reorder, the job never
\* issues a full replacement afterwards, _apply_reorder_strategy returns
\* success False, and the job is never COMPLETED and ends FAILED.
MoveFailed == \E k \in 1..Len(issued) : ~issued[k].success

C22_PartialApplicationReported ==
    (IsJob /\ MoveFailed) =>
        /\ invoked = <<"apply_intelligent_reorder">>
        /\ requests = <<>> /\ rewritten = None
        /\ job_status \in {"IN_PROGRESS", "FAILED"}
        /\ JobReturned => (job_status = "FAILED" /\ applied_ok = Some(FALSE))

C22_Witness ==
    /\ JobReturned
    /\ Len(moves_in) = 2
    /\ Len(issued) = 2
    /\ issued[1].success
    /\ ~issued[2].success
    /\ job_status = "FAILED"

\* C23: update_playlist_track_order issues the chunks of track_ids (at most
\* chunk_size ids each) in increasing index order, the first as a replace
\* request and every later one as an append request, stops at the first failed
\* request and then returns False; when every request succeeded it returns
\* True and the issued chunks, concatenated, are track_ids.
RewriteCalled == op = "update_playlist_track_order"
RewriteReturned == RewriteCalled /\ rewritten # None
RequestOk(r) == r.status_code \in {200, 201}

RECURSIVE IssuedIds(_)
IssuedIds(rs) ==
    IF rs = <<>> THEN <<>>
    ELSE [j \in 1..Len(Head(rs).uris) |-> Head(rs).uris[j][2]] \o IssuedIds(Tail(rs))

ChunksInOrder ==
    /\ \A k \in 1..Len(requests) :
          /\ Len(requests[k].uris) >= 1
          /\ Len(requests[k].uris) <= chunk_size
          /\ requests[k].verb = (IF k = 1 THEN "PUT" ELSE "POST")
          /\ \A j \in 1..Len(requests[k].uris) :
                requests[k].uris[j] = <<"spotify:track:", track_ids[(k - 1) * chunk_size + j]>>
    /\ \A k \in 1..(Len(requests) - 1) :
          RequestOk(requests[k]) /\ Len(requests[k].uris) = chunk_size

StopsAtFailure ==
    (requests # <<>> /\ ~RequestOk(requests[Len(requests)]))
        => rewritten = Some("False")

\* the claim as stated, for every call
C23_ChunkedRewrite ==
    RewriteCalled =>
        /\ ChunksInOrder
        /\ StopsAtFailure
        /\ rewritten = Some("False") => (requests # <<>> /\ ~RequestOk(requests[Len(requests)]))
        /\ (RewriteReturned /\ \A k \in 1..Len(requests) : RequestOk(requests[k]))
              => (rewritten = Some("True") /\ IssuedIds(requests) = track_ids)

\* C23 as amended: the claim holds of the calls that have headers and a list
\* that is not empty; every other call issues no request and returns None.
C23_ChunkedRewriteWhenStarted ==
    RewriteCalled =>
        /\ ChunksInOrder
        /\ StopsAtFailure
        /\ rewritten = Some("False") => (requests # <<>> /\ ~RequestOk(requests[Len(requests)]))
        /\ IF headers /\ track_ids # <<>>
           THEN (RewriteReturned /\ \A k \in 1..Len(requests) : RequestOk(requests[k]))
                    => (rewritten = Some("True") /\ IssuedIds(requests) = track_ids)
           ELSE requests = <<>> /\ rewritten = Some("None")
        /\ rewritten = Some("True") => IssuedIds(requests) = track_ids

C23_Witness ==
    /\ RewriteReturned
    /\ rewritten = Some("True")
    /\ Len(track_ids) = 2 * chunk_size + 1
    /\ Len(requests) = 3
    /\ requests[3].verb = "POST"
    /\ Len(requests[3].uris) = 1

\* C24: for compatible inputs calculate_reorder_strategy returns
\* intelligent_moves if and only if 2 * len(moves) < len(original); whatever
\* the similarity had been, the kind, the returned moves and efficiency_gain
\* would be the same; and efficiency_gain is above 0.5 whenever the kind is
\* intelligent_moves.
SimilarityValues == {Rat(k, 10) : k \in 0..10}
Decided == StrategyReturned /\ PreconditionFailure(original_order, new_order) = "none"

C24_KindDependsOnMoveCount ==
    Decided =>
        /\ result[1].strategy = "intelligent_moves" <=> 2 * Len(moves) < Len(original_order)
        /\ \A sim \in SimilarityValues :
              LET other == Decision(sim, moves, Len(original_order))
              IN  /\ other.strategy = result[1].strategy
                  /\ other.moves = result[1].moves
                  /\ other.efficiency_gain = result[1].efficiency_gain
        /\ result[1].strategy = "intelligent_moves"
              => RatGt(result[1].efficiency_gain[1], Rat(1, 2))

C24_Witness ==
    /\ Decided
    /\ result[1].strategy = "intelligent_moves"
    /\ result[1].reason = "High similarity with few moves needed"
    /\ Len(moves) = 1
    /\ RatLt(similarity[1], Rat(1, 1))

\* C25: for compatible orderings of unique identifiers every move emitted at
\* target position p is a backward move: range_start > p and insert_before = p;
\* no move with insert_before = p + 1 is emitted, and insert_before strictly
\* increases along the plan.
UniqueCompatible ==
    PlannerRan /\ Unique(original_order) /\ SameMultiset(original_order, new_order)

C25_OnlyBackwardMoves ==
    UniqueCompatible =>
        /\ AboutToEmit =>
              /\ current_pos > target_pos
              /\ PlannedMove.range_start > target_pos
              /\ PlannedMove.insert_before = target_pos
              /\ moves # <<>> => moves[Len(moves)].insert_before < target_pos
        /\ \A k \in 1..Len(moves) : moves[k].range_start > moves[k].insert_before
        /\ \A k \in 1..(Len(moves) - 1) : moves[k].insert_before < moves[k + 1].insert_before

C25_Witness ==
    /\ UniqueCompatible
    /\ PlannerReturned
    /\ Len(moves) = 3
    /\ moves[3].insert_before = 2
    /\ moves[3].range_start = 3

\* C26: _apply_move_to_list keeps the length and the multiset of the list,
\* for every list and every move with range_length >= 1, whether its range is
\* valid or not and wherever insert_before points; so the working list of the
\* planner and of validate_moves stays a permutation of the list it started as.
C26_PermutationPreserving ==
    /\ ApplyReturned =>
          /\ Len(applied[1].playlist) = Len(playlist_in)
          /\ SameMultiset(playlist_in, applied[1].playlist)
    /\ (PlannerRan /\ PlannerInput(original_order, new_order)) =>
          (Len(current) = Len(original_order) /\ SameMultiset(original_order, current))
    /\ op = "validate_moves" =>
          (Len(test_list) = Len(original_order) /\ SameMultiset(original_order, test_list))

C26_Witness ==
    /\ ApplyReturned
    /\ ~InvalidRange(playlist_in, move_in[1])
    /\ ~Unique(playlist_in)
    /\ move_in[1].range_length = 2
    /\ move_in[1].insert_before < 0
    /\ applied[1].playlist # playlist_in

\* C27: a valid-range move whose insert_before lies anywhere from range_start
\* to range_start + range_length (the block's own span or the slot right after
\* it) leaves the list unchanged.
OntoItself(move) ==
    /\ move.insert_before >= move.range_start
    /\ move.insert_before <= move.range_start + move.range_length

C27_MoveOntoItselfIsNoOp ==
    (ApplyReturned /\ ~InvalidRange(playlist_in, move_in[1]) /\ OntoItself(move_in[1]))
        => applied[1].playlist = playlist_in

\* C28: for every non-empty ordering X of unique identifiers,
\* calculate_reorder_strategy(X, X) returns intelligent_moves with an empty
\* move list that is not None, move_count 0, similarity 1.0 and
\* efficiency_gain 1.
C28_UnchangedOrdering ==
    (StrategyReturned /\ original_order # <<>> /\ Unique(original_order)
                      /\ new_order = original_order)
        => /\ result[1].strategy = "intelligent_moves"
           /\ result[1].moves = Some(<<>>)
           /\ result[1].move_count = Some(0)
           /\ IsOne(result[1].similarity[1])
           /\ IsOne(result[1].efficiency_gain[1])

C28_Witness ==
    /\ StrategyReturned
    /\ Len(original_order) = 3
    /\ Unique(original_order)
    /\ new_order = original_order
    /\ result[1].moves = Some(<<>>)

\* C29: for compatible orderings of unique identifiers the optimizer returns
\* the planner's moves unchanged, move for move, because no two consecutive
\* planned moves have the same insert_before.
C29_OptimizerKeepsPlan ==
    (UniqueCompatible /\ PlannerReturned)
        => /\ optimize_moves(moves) = moves
           /\ \A k \in 1..(Len(moves) - 1) : moves[k].insert_before # moves[k + 1].insert_before

C29_Witness ==
    /\ UniqueCompatible
    /\ PlannerReturned
    /\ Len(moves) >= 2
    /\ moves[1].range_start + moves[1].range_length = moves[2].range_start
    /\ optimize_moves(moves) = moves

\* C30: for compatible orderings of unique identifiers, once the planner's
\* iteration for target position p has finished the working list agrees with
\* target on indices 0..p, and no later step changes indices 0..p.
PrefixAgrees ==
    /\ target_pos <= Len(new_order)
    /\ \A i \in 1..target_pos : current[i] = new_order[i]

PrefixKept == \A i \in 1..target_pos : current'[i] = current[i]

C30_PlannerLoopInvariant ==
    /\ [](UniqueCompatible => PrefixAgrees)
    /\ [][(UniqueCompatible /\ InPlanner) => PrefixKept]_vars

C30_Witness ==
    /\ UniqueCompatible
    /\ pc = "plan_loop"
    /\ target_pos = 2
    /\ Len(moves) = 2
    /\ Len(new_order) = 4
    /\ current # new_order
    /\ PrefixAgrees

====
